---- MODULE Spec2Model ----
(***************************************************************************)
(* imageMe (imageme.py): crawl a directory tree writing one gallery index  *)
(* file per directory, serve the tree over HTTP, then remove the index     *)
(* files.  File and directory names are sequences of one-character         *)
(* strings; a path is a sequence of names.                                 *)
(***************************************************************************)
EXTENDS Integers, Sequences, FiniteSets, TLC

(* ------------------------------------------------------------------ *)
(* Bounds of the model                                                 *)
(* ------------------------------------------------------------------ *)
\* most files in the directory of a gallery-shaped initial tree
MaxImages == 4
\* most HTTP requests handled during one serve phase
MaxRequests == 1
\* most successive create_index_files calls of a library caller
MaxCrawls == 2

(* ------------------------------------------------------------------ *)
(* Constants / configuration of imageme.py                             *)
(* ------------------------------------------------------------------ *)
INDEX_FILE_NAME == <<"i","m","a","g","e","m","e",".","h","t","m","l">>

IMAGES_PER_ROW == 3

\* the alternatives of IMAGE_FILE_REGEX
ImageExtensions ==
    { <<"p","n","g">>, <<"j","p","g">>, <<"j","p","e","g">>, <<"t","i","f">>,
      <<"t","i","f","f">>, <<"g","i","f">>, <<"b","m","p">> }

\* byte values of the characters that occur in the names of the model
Ord ==
    [ c \in {"\n", ".", "G", "N", "P", "Z", "a", "b", "c", "e", "f", "g", "h",
             "i", "j", "l", "m", "n", "p", "t", "x"} |->
      CASE c = "\n" -> 10 [] c = "." -> 46 [] c = "G" -> 71 [] c = "N" -> 78
        [] c = "P" -> 80 [] c = "Z" -> 90 [] c = "a" -> 97 [] c = "b" -> 98
        [] c = "c" -> 99 [] c = "e" -> 101 [] c = "f" -> 102 [] c = "g" -> 103
        [] c = "h" -> 104 [] c = "i" -> 105 [] c = "j" -> 106 [] c = "l" -> 108
        [] c = "m" -> 109 [] c = "n" -> 110 [] c = "p" -> 112 [] c = "t" -> 116
        [] c = "x" -> 120 ]

(* ------------------------------------------------------------------ *)
(* Strings                                                             *)
(* ------------------------------------------------------------------ *)
Min(a, b) == IF a <= b THEN a ELSE b

\* Python 2 str comparison a < b: bytewise, a proper prefix sorts first
StrLess(a, b) ==
    \/ /\ Len(a) < Len(b)
       /\ \A i \in 1..Len(a) : a[i] = b[i]
    \/ \E i \in 1..Min(Len(a), Len(b)) :
          /\ \A j \in 1..(i - 1) : a[j] = b[j]
          /\ Ord[a[i]] < Ord[b[i]]

\* a pattern without the extension list, '^.+\..+$': any name with a dot inside
ImageFileRegexAnyExtension(f) ==
    \E i \in 1..Len(f) :
       /\ \A j \in 1..i : f[j] # "\n"
       /\ i + 2 <= Len(f)
       /\ f[i + 1] = "."
       /\ \A j \in (i + 2)..Len(f) : f[j] # "\n"

\* re.match(IMAGE_FILE_REGEX, f) with IMAGE_FILE_REGEX =
\* '^.+\.(png|jpg|jpeg|tif|tiff|gif|bmp)$': '.' matches any character but a
\* newline, and '$' matches at the end of the string or just before a newline
\* that ends the string
ImageFileRegexMatch(f) ==
    \E i \in 1..Len(f) :
       /\ \A j \in 1..i : f[j] # "\n"
       /\ i + 1 <= Len(f)
       /\ f[i + 1] = "."
       /\ \E ext \in ImageExtensions :
             \/ SubSeq(f, i + 2, Len(f)) = ext
             \/ SubSeq(f, i + 2, Len(f)) = ext \o <<"\n">>

RECURSIVE Insert(_, _)
Insert(s, x) ==
    IF s = <<>> THEN <<x>>
    ELSE IF StrLess(x, Head(s)) THEN <<x>> \o s
    ELSE <<Head(s)>> \o Insert(Tail(s), x)

\* sorted(names) for a list of str
RECURSIVE sorted(_)
sorted(names) ==
    IF names = <<>> THEN <<>>
    ELSE Insert(sorted(Tail(names)), Head(names))

\* [f for f in files if re.match(IMAGE_FILE_REGEX, f)]
RECURSIVE MatchingFiles(_)
MatchingFiles(files) ==
    IF files = <<>> THEN <<>>
    ELSE IF ImageFileRegexMatch(Head(files))
         THEN <<Head(files)>> \o MatchingFiles(Tail(files))
         ELSE MatchingFiles(Tail(files))

Range(s) == { s[i] : i \in 1..Len(s) }

\* str(n) for the small counts of the model
Digits == <<"0", "1", "2", "3", "4", "5", "6", "7", "8", "9">>

str(n) ==
    IF n < 10 THEN <<Digits[n + 1]>>
    ELSE <<Digits[(n \div 10) + 1], Digits[(n % 10) + 1]>>

\* os.path.join(a, b) of posixpath
join(a, b) ==
    IF b # <<>> /\ Head(b) = "/" THEN b
    ELSE IF a = <<>> \/ a[Len(a)] = "/" THEN a \o b
    ELSE a \o <<"/">> \o b

\* _get_index_file_path(location)
_get_index_file_path(location) == join(location, INDEX_FILE_NAME)

(* ------------------------------------------------------------------ *)
(* _create_index_file: the HTML document, one record per line.  text   *)
(* is the literal part of the line, args the strings spliced into it.  *)
(* ------------------------------------------------------------------ *)
Line(t) == [text |-> t, args |-> <<>>]

LineWith(t, a) == [text |-> t, args |-> a]

HtmlHead(location, image_files) ==
    << Line("<!DOCTYPE html>"),
       Line("<html>"),
       Line("    <head>"),
       Line("        <title>imageMe</title>        <style>"),
       Line("            html, body {margin: 0;padding: 0;}"),
       Line("            .header {text-align: right;}"),
       Line("            .content {"),
       Line("                padding: 3em;"),
       Line("                padding-left: 4em;"),
       Line("                padding-right: 4em;"),
       Line("            }"),
       Line("            .image {max-width: 100%; border-radius: 0.3em;}"),
       Line("            td {width: 33.3333333333%;}"),
       Line("        </style>"),
       Line("    </head>"),
       Line("    <body>"),
       Line("    <div class=\"content\">"),
       LineWith("        <h2 class=\"header\">imageMe: %s [%s image(s)]</h2>",
                <<location, str(Len(image_files))>>),
       Line("        <hr>") >>

\* the parent entry given to every directory, the crawl root included
DirectoriesAlwaysParent(root_dir, location, dirs) == << <<".", ".">> >> \o dirs

\* directories = ['..'] if root_dir != location, then += dirs
Directories(root_dir, location, dirs) ==
    (IF root_dir # location THEN << <<".", ".">> >> ELSE <<>>) \o dirs

\* the three lines of one navigation entry; link = directory/INDEX_FILE_NAME
NavLines(directory) ==
    << Line("    <h3 class=\"header\">"),
       LineWith("    <a href=\"%s\">%s</a>",
                <<directory \o <<"/">> \o INDEX_FILE_NAME, directory>>),
       Line("    </h3>") >>

RECURSIVE NavHtml(_)
NavHtml(directories) ==
    IF directories = <<>> THEN <<>>
    ELSE NavLines(Head(directories)) \o NavHtml(Tail(directories))

CellLines(image_file) ==
    << Line("    <td>"),
       LineWith("    <a href=\"%s\">", <<image_file>>),
       LineWith("        <img class=\"image\" src=\"%s\">", <<image_file>>),
       Line("    </a>"),
       Line("    </td>") >>

\* the loop over image_files, table_row_count being the counter on entry
RECURSIVE TableRows(_, _)
TableRows(image_files, table_row_count) ==
    IF image_files = <<>> THEN <<>>
    ELSE (IF table_row_count = 1 THEN <<Line("<tr>")>> ELSE <<>>)
         \o CellLines(Head(image_files))
         \o (IF table_row_count = IMAGES_PER_ROW THEN <<Line("</tr>")>> ELSE <<>>)
         \o TableRows(Tail(image_files),
                      (IF table_row_count = IMAGES_PER_ROW THEN 0
                       ELSE table_row_count) + 1)

TableHtml(image_files) ==
    <<Line("<hr>"), Line("<table>")>>
    \o TableRows(image_files, 1)
    \o <<Line("</tr>"), Line("</table>")>>

HtmlTail == <<Line("    </div>"), Line("    </body>"), Line("</html>")>>

\* the list html that _create_index_file writes, joined by newlines
IndexHtml(root_dir, location, image_files, dirs) ==
    HtmlHead(location, image_files)
    \o NavHtml(Directories(root_dir, location, dirs))
    \o TableHtml(image_files)
    \o HtmlTail

(* ------------------------------------------------------------------ *)
(* The file system under the crawl root                                *)
(* ------------------------------------------------------------------ *)
DirA == <<"a">>

DirB == <<"b">>

DirC == <<"c">>

\* the directories a tree of the model may hold, as name sequences below
\* the crawl root: root, root/a, root/b, root/a/c
Nodes == { <<>>, <<DirA>>, <<DirB>>, <<DirA, DirC>> }

Root == <<>>

\* what a directory entry is to os.walk: a directory it can list, a symbolic
\* link to a directory, a directory whose listing raises, or absent
Kinds == {"dir", "link", "noread", "none"}

\* the crawl roots serve_dir and create_index_files are called with
RootDirs == { <<".">>, <<"g", "/">> }

\* non-directory names of the tree-shaped initial states
TreeFileNames == { INDEX_FILE_NAME }

\* non-directory names of the gallery-shaped initial states
GalleryFileNames ==
    { <<"a", ".", "j", "p", "g">>, <<"b", ".", "p", "n", "g">>,
      <<"Z", ".", "g", "i", "f">>, <<"c", ".", "t", "i", "f", "f">>,
      <<".", "p", "n", "g">>, <<"a", ".", "P", "N", "G">>,
      INDEX_FILE_NAME, <<"a", ".", "p", "n", "g", "\n">>,
      <<"a", "\n", ".", "p", "n", "g">>, <<"x", "p", "n", "g">> }

\* content of a file that does not exist
NoFile == <<>>

\* content of an index file left behind by an earlier run
Stale == <<Line("stale")>>

\* content of an index file whose write failed after open() truncated it
Partial == <<Line("")>>

VARIABLES
    root_dir,       \* argument of serve_dir / create_index_files
    mode,           \* the entry point the caller uses
    fsorder,        \* the order in which os.listdir yields names
    kind,           \* Nodes -> Kinds
    files,          \* Nodes -> set of non-directory names in the directory
    content,        \* Nodes -> lines of the directory's index file, or NoFile
    pc,             \* position of the program
    todo,           \* directories os.walk has still to list, next first
    created_files,  \* the list create_index_files builds and returns
    calls,          \* Nodes -> arguments of this crawl's _create_index_file call
    written,        \* index-file paths written by this crawl, in order
    runs,           \* completed create_index_files calls
    prev,           \* result and index files of the previous completed crawl
    port,           \* result of _get_server_port
    requests,       \* requests handled by serve_forever
    report,         \* what run_server printed on stopping
    cleanIdx,       \* position of clean_up in paths
    crash,          \* the uncaught exception that ended the run
    phases,         \* phases of serve_dir entered so far
    extTouched      \* index files removed by somebody else while serving

vars == << root_dir, mode, fsorder, kind, files, content, pc, todo,
           created_files, calls, written, runs, prev, port, requests, report,
           cleanIdx, crash, phases, extTouched >>

Parent(n) == SubSeq(n, 1, Len(n) - 1)

\* the path string os.walk yields for a directory: top for the root,
\* join(top, name) below it
RECURSIVE PathStr(_, _)
PathStr(top, n) ==
    IF n = <<>> THEN top
    ELSE join(PathStr(top, Parent(n)), n[Len(n)])

\* names of the entries of n that are directories to os.path.isdir
SubdirNames(n) ==
    { m[Len(m)] : m \in { x \in Nodes : /\ Len(x) = Len(n) + 1
                                        /\ Parent(x) = n
                                        /\ kind[x] # "none" } }

RECURSIVE Ascending(_)
Ascending(S) ==
    IF S = {} THEN <<>>
    ELSE LET least == CHOOSE x \in S : \A y \in S \ {x} : StrLess(x, y)
         IN  <<least>> \o Ascending(S \ {least})

Reverse(s) == [i \in 1..Len(s) |-> s[Len(s) + 1 - i]]

\* os.listdir(n): every entry once, in the order of the file system
listdir(n) ==
    LET names == Ascending(files[n] \cup SubdirNames(n))
    IN  IF fsorder = "asc" THEN names ELSE Reverse(names)

\* the directory whose index file a path string names
NodeOfIndex(p) ==
    CHOOSE n \in Nodes : _get_index_file_path(PathStr(root_dir, n)) = p

NoCall == <<>>

NoPrev == [created |-> <<>>, content |-> [n \in Nodes |-> NoFile]]

(* ------------------------------------------------------------------ *)
(* Initial states                                                      *)
(* ------------------------------------------------------------------ *)
InitProgram ==
    /\ root_dir \in RootDirs
    /\ mode \in {"serve_dir", "create_index_files"}
    /\ fsorder \in {"asc", "desc"}
    /\ pc = "start"
    /\ todo = <<>>
    /\ created_files = <<>>
    /\ calls = [n \in Nodes |-> NoCall]
    /\ written = <<>>
    /\ runs = 0
    /\ prev = NoPrev
    /\ port = 0
    /\ requests = 0
    /\ report = "none"
    /\ cleanIdx = 0
    /\ crash = "none"
    /\ phases = <<>>
    /\ extTouched = {}

\* a tree of up to four directories; a directory may hold an index file of
\* an earlier run
InitTree ==
    /\ kind \in [Nodes -> Kinds]
    /\ kind[Root] \in {"dir", "noread"}
    /\ kind[Root] = "noread" => \A n \in Nodes \ {Root} : kind[n] = "none"
    /\ kind[<<DirA, DirC>>] # "none" => kind[<<DirA>>] = "dir"
    /\ files \in [Nodes -> SUBSET TreeFileNames]
    /\ \A n \in Nodes : kind[n] # "dir" => files[n] = {}
    /\ content = [n \in Nodes |->
                    IF INDEX_FILE_NAME \in files[n] THEN Stale ELSE NoFile]

\* one directory holding up to MaxImages files of any of the names
InitGallery ==
    /\ kind = [n \in Nodes |-> IF n = Root THEN "dir" ELSE "none"]
    /\ \E S \in SUBSET GalleryFileNames :
          /\ Cardinality(S) <= MaxImages
          /\ files = [n \in Nodes |-> IF n = Root THEN S ELSE {}]
    /\ content = [n \in Nodes |->
                    IF INDEX_FILE_NAME \in files[n] THEN Stale ELSE NoFile]

Init == InitProgram /\ (InitTree \/ InitGallery)

(* ------------------------------------------------------------------ *)
(* create_index_files                                                  *)
(* ------------------------------------------------------------------ *)
\* serve_dir calls create_index_files(dir_path) once; a caller of the
\* module function may call it again after it returned
CallCreateIndexFiles ==
    /\ \/ pc = "start"
       \/ pc = "returned" /\ mode = "create_index_files" /\ runs < MaxCrawls
    /\ pc' = "crawl"
    /\ created_files' = <<>>
    /\ todo' = <<Root>>
    /\ calls' = [n \in Nodes |-> NoCall]
    /\ written' = <<>>
    /\ prev' = IF pc = "returned"
               THEN [created |-> created_files, content |-> content]
               ELSE prev
    /\ phases' = IF mode = "serve_dir" THEN Append(phases, "crawl") ELSE phases
    /\ UNCHANGED << root_dir, mode, fsorder, kind, files, content, runs, port,
                    requests, report, cleanIdx, crash, extTouched >>

\* the names of a listing that os.walk puts in dirs (isdir true) ...
RECURSIVE WalkDirs(_, _)
WalkDirs(names, subdirs) ==
    IF names = <<>> THEN <<>>
    ELSE IF Head(names) \in subdirs
         THEN <<Head(names)>> \o WalkDirs(Tail(names), subdirs)
         ELSE WalkDirs(Tail(names), subdirs)

\* ... and in nondirs
RECURSIVE WalkNonDirs(_, _)
WalkNonDirs(names, subdirs) ==
    IF names = <<>> THEN <<>>
    ELSE IF Head(names) \in subdirs
         THEN WalkNonDirs(Tail(names), subdirs)
         ELSE <<Head(names)>> \o WalkNonDirs(Tail(names), subdirs)

\* the directories os.walk goes on to list below n: those of dirs that are
\* no symbolic links, in the order of dirs
RECURSIVE Descend(_, _)
Descend(n, dirs) ==
    IF dirs = <<>> THEN <<>>
    ELSE IF kind[Append(n, Head(dirs))] # "link"
         THEN <<Append(n, Head(dirs))>> \o Descend(n, Tail(dirs))
         ELSE Descend(n, Tail(dirs))

\* image_files of the loop body: the matching names, sorted
ImageFilesOf(walkfiles) == sorted(MatchingFiles(walkfiles))

\* created_files.insert(0, path)
InsertCreated(created, path) == <<path>> \o created

\* created_files.append(path)
AppendCreated(created, path) == Append(created, path)

\* one iteration of the loop over os.walk(root_dir), the index file written
CrawlStep ==
    /\ pc = "crawl"
    /\ todo # <<>>
    /\ kind[Head(todo)] = "dir"
    /\ LET n == Head(todo)
           here == PathStr(root_dir, n)
           names == listdir(n)
           walkdirs == WalkDirs(names, SubdirNames(n))
           walkfiles == WalkNonDirs(names, SubdirNames(n))
           dirs == sorted(walkdirs)
           image_files == ImageFilesOf(walkfiles)
           index_file_path == _get_index_file_path(here)
       IN  /\ content' = [content EXCEPT ![n] =
                             IndexHtml(root_dir, here, image_files, dirs)]
           /\ files' = [files EXCEPT ![n] = @ \cup {INDEX_FILE_NAME}]
           /\ written' = Append(written, index_file_path)
           /\ created_files' = AppendCreated(created_files, index_file_path)
           /\ calls' = [calls EXCEPT ![n] =
                          <<[root_dir |-> root_dir, location |-> here,
                             image_files |-> image_files, dirs |-> dirs]>>]
           /\ todo' = Descend(n, walkdirs) \o Tail(todo)
    /\ UNCHANGED << root_dir, mode, fsorder, kind, pc, runs, prev, port,
                    requests, report, cleanIdx, crash, phases, extTouched >>

\* the failed write caught and passed over: the crawl goes on without the
\* directory
CrawlWriteFailSkipped ==
    /\ pc = "crawl"
    /\ todo # <<>>
    /\ kind[Head(todo)] = "dir"
    /\ todo' = Tail(todo)
    /\ crash' = "index_write"
    /\ UNCHANGED << root_dir, mode, fsorder, kind, files, content, pc,
                    created_files, calls, written, runs, prev, port, requests,
                    report, cleanIdx, phases, extTouched >>

\* open() or write() of the index file raises: nothing catches it.  A write
\* that fails after open() leaves a truncated file
CrawlWriteFail ==
    /\ pc = "crawl"
    /\ todo # <<>>
    /\ kind[Head(todo)] = "dir"
    /\ \E opened \in BOOLEAN :
          LET n == Head(todo)
          IN  /\ content' = IF opened THEN [content EXCEPT ![n] = Partial]
                            ELSE content
              /\ files' = IF opened
                          THEN [files EXCEPT ![n] = @ \cup {INDEX_FILE_NAME}]
                          ELSE files
    /\ pc' = "crashed"
    /\ crash' = "index_write"
    /\ UNCHANGED << root_dir, mode, fsorder, kind, todo, created_files, calls,
                    written, runs, prev, port, requests, report, cleanIdx,
                    phases, extTouched >>

\* os.listdir raises in os.walk: the directory is passed over, not yielded
WalkListdirError ==
    /\ pc = "crawl"
    /\ todo # <<>>
    /\ kind[Head(todo)] = "noread"
    /\ todo' = Tail(todo)
    /\ UNCHANGED << root_dir, mode, fsorder, kind, files, content, pc,
                    created_files, calls, written, runs, prev, port, requests,
                    report, cleanIdx, crash, phases, extTouched >>

\* os.walk is exhausted: return created_files
CrawlReturn ==
    /\ pc = "crawl"
    /\ todo = <<>>
    /\ pc' = "returned"
    /\ runs' = runs + 1
    /\ UNCHANGED << root_dir, mode, fsorder, kind, files, content, todo,
                    created_files, calls, written, prev, port, requests,
                    report, cleanIdx, crash, phases, extTouched >>

(* ------------------------------------------------------------------ *)
(* run_server                                                          *)
(* ------------------------------------------------------------------ *)
\* sys.argv[1:2]: no argument, a number, something else
Argv == { <<>>, << <<"8", "0">> >>, << <<"x">> >> }

DigitValue(c) == CHOOSE d \in 0..9 : Digits[d + 1] = c

IsNumber(s) == s # <<>> /\ \A i \in 1..Len(s) : s[i] \in Range(Digits)

RECURSIVE int(_)
int(s) ==
    IF s = <<>> THEN 0
    ELSE 10 * int(SubSeq(s, 1, Len(s) - 1)) + DigitValue(s[Len(s)])

\* _get_server_port()
_get_server_port(argv) == IF Len(argv) >= 1 THEN int(argv[1]) ELSE 8000

\* run_server up to the port: int() raises ValueError on a non-number
RunServerGetPort ==
    /\ pc = "returned"
    /\ mode = "serve_dir"
    /\ phases' = Append(phases, "serve")
    /\ \E argv \in Argv :
          IF Len(argv) >= 1 /\ ~IsNumber(argv[1])
          THEN /\ pc' = "crashed"
               /\ crash' = "port_value"
               /\ port' = port
          ELSE /\ pc' = "bind"
               /\ crash' = crash
               /\ port' = _get_server_port(argv)
    /\ UNCHANGED << root_dir, mode, fsorder, kind, files, content, todo,
                    created_files, calls, written, runs, prev, requests,
                    report, cleanIdx, extTouched >>

\* SocketServer.TCPServer(('', port), ...) binds, the URL is printed and the
\* try block with serve_forever() is entered
CreateServer ==
    /\ pc = "bind"
    /\ pc' = "serving"
    /\ UNCHANGED << root_dir, mode, fsorder, kind, files, content, todo,
                    created_files, calls, written, runs, prev, port, requests,
                    report, cleanIdx, crash, phases, extTouched >>

\* the constructor raises socket.error (address in use, socket fault): the
\* call stands before the try block, so the exception leaves run_server
CreateServerFail ==
    /\ pc = "bind"
    /\ pc' = "crashed"
    /\ crash' = "bind"
    /\ UNCHANGED << root_dir, mode, fsorder, kind, files, content, todo,
                    created_files, calls, written, runs, prev, port, requests,
                    report, cleanIdx, phases, extTouched >>

\* serve_forever handles a GET: files are read, nothing is changed
HandleRequest ==
    /\ pc = "serving"
    /\ requests < MaxRequests
    /\ requests' = requests + 1
    /\ UNCHANGED << root_dir, mode, fsorder, kind, files, content, pc, todo,
                    created_files, calls, written, runs, prev, port, report,
                    cleanIdx, crash, phases, extTouched >>

\* except KeyboardInterrupt
ServeInterrupted ==
    /\ pc = "serving"
    /\ report' = "User interrupted, stopping"
    /\ pc' = "stopped"
    /\ UNCHANGED << root_dir, mode, fsorder, kind, files, content, todo,
                    created_files, calls, written, runs, prev, port, requests,
                    cleanIdx, crash, phases, extTouched >>

\* except Exception
ServeException ==
    /\ pc = "serving"
    /\ report' = "Unhandled exception in server, stopping"
    /\ pc' = "stopped"
    /\ UNCHANGED << root_dir, mode, fsorder, kind, files, content, todo,
                    created_files, calls, written, runs, prev, port, requests,
                    cleanIdx, crash, phases, extTouched >>

\* while serve_forever blocks, somebody else removes a generated index file
ExternalUnlink ==
    /\ pc = "serving"
    /\ \E n \in Nodes :
          /\ calls[n] # NoCall
          /\ INDEX_FILE_NAME \in files[n]
          /\ files' = [files EXCEPT ![n] = @ \ {INDEX_FILE_NAME}]
          /\ content' = [content EXCEPT ![n] = NoFile]
          /\ extTouched' = extTouched \cup {n}
    /\ UNCHANGED << root_dir, mode, fsorder, kind, pc, todo, created_files,
                    calls, written, runs, prev, port, requests, report,
                    cleanIdx, crash, phases >>

(* ------------------------------------------------------------------ *)
(* clean_up                                                            *)
(* ------------------------------------------------------------------ *)
\* run_server returned: serve_dir calls clean_up(created_files)
CallCleanUp ==
    /\ pc = "stopped"
    /\ pc' = "clean_up"
    /\ cleanIdx' = 1
    /\ phases' = Append(phases, "cleanup")
    /\ UNCHANGED << root_dir, mode, fsorder, kind, files, content, todo,
                    created_files, calls, written, runs, prev, port, requests,
                    report, crash, extTouched >>

\* an unlink that leaves the file in place
UnlinkKeepsFile(path) ==
    [files |-> files, content |-> content,
     raised |-> ~(INDEX_FILE_NAME \in files[NodeOfIndex(path)])]

\* an unlink behind an existence check: a missing file is passed over
UnlinkIfExists(path) ==
    LET n == NodeOfIndex(path)
    IN  [files |-> [files EXCEPT ![n] = @ \ {INDEX_FILE_NAME}],
         content |-> [content EXCEPT ![n] = NoFile],
         raised |-> FALSE]

\* os.unlink(path) of a path that is there or not: the file system after it
\* and whether it raised
Unlink(path) ==
    LET n == NodeOfIndex(path)
    IN  IF INDEX_FILE_NAME \in files[n]
        THEN [files |-> [files EXCEPT ![n] = @ \ {INDEX_FILE_NAME}],
              content |-> [content EXCEPT ![n] = NoFile],
              raised |-> FALSE]
        ELSE [files |-> files, content |-> content, raised |-> TRUE]

\* one iteration of the loop of clean_up
CleanUpStep ==
    /\ pc = "clean_up"
    /\ cleanIdx <= Len(created_files)
    /\ LET r == Unlink(created_files[cleanIdx])
       IN  /\ files' = r.files
           /\ content' = r.content
           /\ pc' = IF r.raised THEN "crashed" ELSE pc
           /\ crash' = IF r.raised THEN "unlink_missing" ELSE crash
           /\ cleanIdx' = IF r.raised THEN cleanIdx ELSE cleanIdx + 1
    /\ UNCHANGED << root_dir, mode, fsorder, kind, todo, created_files, calls,
                    written, runs, prev, port, requests, report, phases,
                    extTouched >>

\* os.unlink raises on a file that is there (no permission on the directory)
CleanUpUnremovable ==
    /\ pc = "clean_up"
    /\ cleanIdx <= Len(created_files)
    /\ INDEX_FILE_NAME \in files[NodeOfIndex(created_files[cleanIdx])]
    /\ pc' = "crashed"
    /\ crash' = "unlink_denied"
    /\ UNCHANGED << root_dir, mode, fsorder, kind, files, content, todo,
                    created_files, calls, written, runs, prev, port, requests,
                    report, cleanIdx, phases, extTouched >>

\* the loop is over: clean_up and serve_dir return
CleanUpReturn ==
    /\ pc = "clean_up"
    /\ cleanIdx > Len(created_files)
    /\ pc' = "done"
    /\ UNCHANGED << root_dir, mode, fsorder, kind, files, content, todo,
                    created_files, calls, written, runs, prev, port, requests,
                    report, cleanIdx, crash, phases, extTouched >>

Next ==
    \/ CallCreateIndexFiles
    \/ CrawlStep
    \/ CrawlWriteFail
    \/ WalkListdirError
    \/ CrawlReturn
    \/ RunServerGetPort
    \/ CreateServer
    \/ CreateServerFail
    \/ HandleRequest
    \/ ServeInterrupted
    \/ ServeException
    \/ ExternalUnlink
    \/ CallCleanUp
    \/ CleanUpStep
    \/ CleanUpUnremovable
    \/ CleanUpReturn

Spec == Init /\ [][Next]_vars

(* ------------------------------------------------------------------ *)
(* Reading the state                                                   *)
(* ------------------------------------------------------------------ *)
\* directories this crawl called _create_index_file for
Visited == { n \in Nodes : calls[n] # NoCall }

IndexPathOf(n) == _get_index_file_path(PathStr(root_dir, n))

IndexExists(n) == INDEX_FILE_NAME \in files[n]

\* the document this crawl wrote for a visited directory
Rendered(n) ==
    IndexHtml(calls[n][1].root_dir, calls[n][1].location,
              calls[n][1].image_files, calls[n][1].dirs)

IsNavLine(l) == l.text = "    <a href=\"%s\">%s</a>"

IsImgLine(l) == l.text = "        <img class=\"image\" src=\"%s\">"

IsHeaderLine(l) ==
    l.text = "        <h2 class=\"header\">imageMe: %s [%s image(s)]</h2>"

\* the navigation entries of a document, in order: <<link target, label>>
NavEntries(html) ==
    LET nav == SelectSeq(html, IsNavLine)
    IN  [i \in 1..Len(nav) |-> nav[i].args]

\* the images of a document, in order
Images(html) ==
    LET img == SelectSeq(html, IsImgLine)
    IN  [i \in 1..Len(img) |-> img[i].args[1]]

\* the count the header of a document shows
HeaderCount(html) == SelectSeq(html, IsHeaderLine)[1].args[2]

Count(html, t) == Cardinality({ i \in 1..Len(html) : html[i].text = t })

CountUpTo(html, t, k) == Cardinality({ i \in 1..k : html[i].text = t })

IsPrefix(s, t) == Len(s) <= Len(t) /\ SubSeq(t, 1, Len(s)) = s

InCleanup == pc = "clean_up" \/ crash \in {"unlink_missing", "unlink_denied"}

(* ------------------------------------------------------------------ *)
(* C1                                                                  *)
(* ------------------------------------------------------------------ *)
\* C1: no failure raised while run_server sets up or runs the server (bind
\* failure included) ends serve_dir with clean_up skipped: run_server
\* returns and clean_up is entered.
C1_ServerFailureAbsorbed ==
    ~(pc = "crashed" /\ crash = "bind" /\ "cleanup" \notin Range(phases))

(* ------------------------------------------------------------------ *)
(* C2                                                                  *)
(* ------------------------------------------------------------------ *)
\* C2: when create_index_files returns, every returned path exists; after
\* a serve_dir run whose serve phase is interrupted before any request,
\* with nobody else touching the files, the interrupt was reported,
\* clean_up met no missing file, and once serve_dir has returned none of
\* the returned paths exists.
C2_RoundTrip ==
    /\ pc = "returned" =>
          \A i \in 1..Len(created_files) :
             IndexExists(NodeOfIndex(created_files[i]))
    /\ ( /\ mode = "serve_dir"
         /\ report = "User interrupted, stopping"
         /\ requests = 0
         /\ extTouched = {} ) =>
          /\ pc \in {"stopped", "clean_up", "done", "crashed"}
          /\ pc = "crashed" => crash = "unlink_denied"
          /\ pc = "done" =>
                \A i \in 1..Len(created_files) :
                   ~IndexExists(NodeOfIndex(created_files[i]))

C2_Witness ==
    /\ mode = "serve_dir"
    /\ pc = "done"
    /\ report = "User interrupted, stopping"
    /\ requests = 0
    /\ extTouched = {}
    /\ Len(created_files) >= 3

(* ------------------------------------------------------------------ *)
(* C3                                                                  *)
(* ------------------------------------------------------------------ *)
\* C3: throughout the crawl the list holds exactly the index-file paths
\* written so far, one per visited directory, without duplicates, a
\* directory before its descendants; so without outside deletion clean_up
\* meets no missing file and, when it returns, no generated file is left.
C3_LedgerInvariant ==
    /\ created_files = written
    /\ Len(created_files) = Cardinality(Visited)
    /\ Range(created_files) = { IndexPathOf(n) : n \in Visited }
    /\ \A i, j \in 1..Len(created_files) :
          LET a == NodeOfIndex(created_files[i])
              b == NodeOfIndex(created_files[j])
          IN  (a # b /\ IsPrefix(a, b)) => i < j
    /\ pc \in {"crawl", "returned"} => \A n \in Visited : IndexExists(n)
    /\ crash = "unlink_missing" => extTouched # {}
    /\ (pc = "done" /\ extTouched = {}) => \A n \in Nodes : ~IndexExists(n)

C3_Witness ==
    /\ pc = "crawl"
    /\ Len(created_files) = 3
    /\ todo # <<>>
    /\ fsorder = "desc"

(* ------------------------------------------------------------------ *)
(* C4                                                                  *)
(* ------------------------------------------------------------------ *)
\* a name made of a non-empty prefix, a dot and one of the extensions
HasImageExtension(f) ==
    \E i \in 1..Len(f) :
       /\ i + 1 <= Len(f)
       /\ f[i + 1] = "."
       /\ SubSeq(f, i + 2, Len(f)) \in ImageExtensions

\* C4: the images of a visited directory's index are exactly its
\* non-directory entries named prefix.extension (anchored to the whole
\* name, case-sensitive), ascending, and the header shows their number.
C4_ImageListExact ==
    \A n \in Visited :
       LET expected == Ascending({ f \in files[n] : HasImageExtension(f) })
       IN  /\ calls[n][1].image_files = expected
           /\ content[n] # NoFile =>
                 /\ Images(content[n]) = expected
                 /\ HeaderCount(content[n]) = str(Len(expected))

(* ------------------------------------------------------------------ *)
(* C5                                                                  *)
(* ------------------------------------------------------------------ *)
\* C5: the navigation list of a visited directory's index is its direct
\* subdirectory names ascending, preceded by one '..' exactly when the
\* directory is not the crawl root, each entry e linking to e/imageme.html.
C5_NavList ==
    \A n \in Visited :
       LET expected == (IF n # Root THEN << <<".", ".">> >> ELSE <<>>)
                       \o Ascending(SubdirNames(n))
       IN  content[n] # NoFile =>
              /\ Len(NavEntries(content[n])) = Len(expected)
              /\ \A i \in 1..Len(expected) :
                    NavEntries(content[n])[i] =
                       << expected[i] \o <<"/">> \o INDEX_FILE_NAME,
                          expected[i] >>

C5_Witness ==
    /\ pc = "returned"
    /\ fsorder = "desc"
    /\ Cardinality(SubdirNames(Root)) = 2
    /\ <<DirA, DirC>> \in Visited
    /\ content[Root] # NoFile

(* ------------------------------------------------------------------ *)
(* C6                                                                  *)
(* ------------------------------------------------------------------ *)
\* the positions of the '<tr>' lines of a document, ascending
RowOpens(html) == { i \in 1..Len(html) : html[i].text = "<tr>" }

\* the cells between a '<tr>' line and the next '</tr>' line
CellsOfRow(html, o) ==
    LET close == CHOOSE c \in (o + 1)..Len(html) :
                    /\ html[c].text = "</tr>"
                    /\ \A d \in (o + 1)..(c - 1) : html[d].text # "</tr>"
    IN  Cardinality({ i \in o..close : html[i].text = "    <td>" })

\* C6: for n images the table has ceil(n/3) rows, all full but possibly the
\* last, none empty, and as many '</tr>' as '<tr>' lines, no '</tr>' coming
\* while no row is open.
C6_GridWellFormed ==
    \A n \in Visited :
       content[n] # NoFile =>
          LET html == content[n]
              k == Len(calls[n][1].image_files)
              rows == (k + IMAGES_PER_ROW - 1) \div IMAGES_PER_ROW
          IN  /\ Count(html, "<tr>") = rows
              /\ Count(html, "</tr>") = Count(html, "<tr>")
              /\ \A p \in 1..Len(html) :
                    CountUpTo(html, "</tr>", p) <= CountUpTo(html, "<tr>", p)
              /\ \A o \in RowOpens(html) :
                    LET j == CountUpTo(html, "<tr>", o)
                    IN  CellsOfRow(html, o) =
                           IF j < rows THEN IMAGES_PER_ROW
                           ELSE k - IMAGES_PER_ROW * (rows - 1)

(* ------------------------------------------------------------------ *)
(* C7                                                                  *)
(* ------------------------------------------------------------------ *)
\* C7: a second create_index_files on the tree the first one left returns
\* the same list and leaves in every visited directory one index file equal
\* to the first run's, the old index file never being listed as an image.
C7_CrawlIdempotent ==
    (mode = "create_index_files" /\ pc = "returned" /\ runs >= 2) =>
       /\ created_files = prev.created
       /\ \A n \in Visited :
             /\ IndexExists(n)
             /\ content[n] = prev.content[n]
             /\ INDEX_FILE_NAME \notin Range(calls[n][1].image_files)

C7_Witness ==
    /\ mode = "create_index_files"
    /\ pc = "returned"
    /\ runs = 2
    /\ prev.content[Root] # NoFile
    /\ Len(calls[Root][1].image_files) >= 2
    /\ INDEX_FILE_NAME \in files[Root]

(* ------------------------------------------------------------------ *)
(* C8                                                                  *)
(* ------------------------------------------------------------------ *)
\* C8: clean_up removes the paths in list order without checking that they
\* exist; a failure at position k leaves serve_dir uncaught, the paths
\* before k removed and those after k as they were, and comes only after
\* the serve phase ended; serve_dir cannot return when a path was missing.
C8_CleanupFailure ==
    /\ InCleanup =>
          /\ report # "none"
          /\ phases = <<"crawl", "serve", "cleanup">>
          /\ \A i \in 1..Len(created_files) :
                LET n == NodeOfIndex(created_files[i])
                IN  /\ i < cleanIdx => ~IndexExists(n)
                    /\ (i > cleanIdx /\ n \notin extTouched) =>
                          IndexExists(n) /\ content[n] = Rendered(n)
                    /\ (i > cleanIdx /\ n \in extTouched) => ~IndexExists(n)
    /\ crash = "unlink_missing" =>
          /\ pc = "crashed"
          /\ ~IndexExists(NodeOfIndex(created_files[cleanIdx]))
    /\ crash = "unlink_denied" =>
          /\ pc = "crashed"
          /\ IndexExists(NodeOfIndex(created_files[cleanIdx]))
    /\ pc = "done" => extTouched = {}

C8_Witness ==
    /\ pc = "crashed"
    /\ crash = "unlink_missing"
    /\ cleanIdx = 2
    /\ Len(created_files) >= 3
    /\ NodeOfIndex(created_files[3]) \notin extTouched

(* ------------------------------------------------------------------ *)
(* C9                                                                  *)
(* ------------------------------------------------------------------ *)
\* C9: serve_dir enters crawl, serve and cleanup in this order, each at most
\* once; the server is not created before every visited directory has its
\* index file; an index-write failure ends the run in the crawl, neither
\* serve nor cleanup being entered.
C9_PhaseOrder ==
    mode = "serve_dir" =>
       /\ IsPrefix(phases, <<"crawl", "serve", "cleanup">>)
       /\ "serve" \in Range(phases) =>
             /\ todo = <<>>
             /\ runs = 1
             /\ crash # "index_write"
       /\ pc = "bind" => \A n \in Visited : content[n] = Rendered(n)
       /\ crash = "index_write" => pc = "crashed" /\ phases = <<"crawl">>

C9_Witness ==
    /\ mode = "serve_dir"
    /\ pc = "crashed"
    /\ crash = "index_write"
    /\ Len(created_files) >= 1
    /\ todo # <<>>

(* ------------------------------------------------------------------ *)
(* C10                                                                 *)
(* ------------------------------------------------------------------ *)
\* the directory a navigation entry of directory n leads to
LinkTarget(n, e) == IF e = <<".", ".">> THEN Parent(n) ELSE Append(n, e)

\* C10: when create_index_files has returned, every navigation entry of
\* every visited directory leads to a directory whose index file is in the
\* returned list.
C10_NoDanglingLink ==
    pc = "returned" =>
       \A n \in Visited :
          LET entries == Directories(calls[n][1].root_dir,
                                     calls[n][1].location, calls[n][1].dirs)
          IN  \A i \in 1..Len(entries) :
                 IndexPathOf(LinkTarget(n, entries[i]))
                    \in Range(created_files)

====
